---- MODULE Spec2Model ----
(***************************************************************************)
(* Model of scripts/build_feed.py: fetch() with retry and backoff, the     *)
(* per-item record extraction of main() (strip_html, first_image,          *)
(* parse_date) and the writing of posts.json.                              *)
(*                                                                         *)
(* A Python str is a sequence of one-character strings.  A date string is  *)
(* a sequence of lexemes ("Wed,", "22 Oct 2025", "07:00:00", "GMT", ...)    *)
(* separated by " " elements, so that strip / whitespace collapsing act on *)
(* it exactly as on any other str.  None is Null, a present value is       *)
(* Some(v).                                                                *)
(***************************************************************************)
EXTENDS Integers, Sequences, FiniteSets, TLC

VARIABLES pc, i, gets, sleeps, last_err, raised, raw, items, out,
          posts_json, writes, stderr, exit, now, tzoff, given

vars == <<pc, i, gets, sleeps, last_err, raised, raw, items, out,
          posts_json, writes, stderr, exit, now, tzoff, given>>

(* ------------------------------ bounds --------------------------------- *)
\* most item children a channel of the main specification holds
MaxItems == 13
\* longest description drawn over Alphabet in SpecSubtitle
MaxLen == 5
\* most fragments of a content:encoded blob in SpecImage
MaxFrags == 2

(* ------------------------- program constants --------------------------- *)
MAX_POSTS == 12
tries == 4
delay == 2
RetryCodes == {403, 429, 500, 502, 503, 504}
SubtitleMax == 220
SubtitleCut == 217
\* the three characters of the marker appended on truncation (the source
\* holds the UTF-8 ellipsis read as three Latin-1 characters)
Ellipsis == <<"e1", "e2", "e3">>

(* ------------------------------ values --------------------------------- *)
Null == [some |-> FALSE, v |-> <<>>]
Some(s) == [some |-> TRUE, v |-> s]
\* Python truthiness of an optional str: neither None nor ""
Truthy(x) == x.some /\ x.v # <<>>
\* x or ""
OrEmpty(x) == IF Truthy(x) THEN x.v ELSE <<>>

Min(a, b) == IF a < b THEN a ELSE b
SetMax(S) == CHOOSE x \in S : \A y \in S : y <= x
SetMin(S) == CHOOSE x \in S : \A y \in S : x <= y

\* what \s matches
WS == {" ", "\n", "\t"}

\* str.lstrip / rstrip / strip
RECURSIVE lstrip(_)
lstrip(s) == IF s # <<>> /\ Head(s) \in WS THEN lstrip(Tail(s)) ELSE s
RECURSIVE rstrip(_)
rstrip(s) ==
  IF s # <<>> /\ s[Len(s)] \in WS THEN rstrip(SubSeq(s, 1, Len(s) - 1)) ELSE s
strip(s) == rstrip(lstrip(s))

\* re.sub(r"\s+", " ", s): up to the next run of whitespace as it is, the run
\* as one space, then the rest
RECURSIVE collapse_ws(_)
collapse_ws(s) ==
  LET ws == {j \in 1..Len(s) : s[j] \in WS}
  IN  IF ws = {} THEN s
      ELSE SubSeq(s, 1, SetMin(ws) - 1) \o <<" ">>
           \o collapse_ws(lstrip(SubSeq(s, SetMin(ws), Len(s))))

(* ----------------------------- strip_html ------------------------------ *)
\* A plausible slip: a tag pattern <[a-z]+> that only takes letters.
TagEndLetters(s, p) ==
  LET close == {q \in (p + 1)..Len(s) : s[q] = ">"}
  IN  IF s[p] = "<" /\ close # {} /\ SetMin(close) > p + 1
         /\ \A r \in (p + 1)..(SetMin(close) - 1) : s[r] = "a"
      THEN SetMin(close) ELSE 0

\* Where the match of <[^>]+> that starts at p ends, 0 when none starts at p:
\* [^>]+ cannot cross a ">", so the match ends at the first ">" after p, and
\* there must be at least one character in between.
TagEnd(s, p) ==
  LET close == {q \in (p + 1)..Len(s) : s[q] = ">"}
  IN  IF s[p] = "<" /\ close # {} /\ SetMin(close) > p + 1
      THEN SetMin(close) ELSE 0

\* re.sub(r"<[^>]+>", " ", s) from position p on: up to the leftmost match
\* as it is, the match as one space, then the rest after the match
RECURSIVE sub_tags(_, _)
sub_tags(s, p) ==
  LET starts == {m \in p..Len(s) : TagEnd(s, m) # 0}
  IN  IF starts = {} THEN SubSeq(s, p, Len(s))
      ELSE SubSeq(s, p, SetMin(starts) - 1) \o <<" ">>
           \o sub_tags(s, TagEnd(s, SetMin(starts)) + 1)

strip_html(html) == strip(collapse_ws(sub_tags(OrEmpty(html), 1)))

(* ----------------------------- first_image ----------------------------- *)
\* re.I on the literal letters of the pattern
Lower(c) ==
  CASE c = "I" -> "i" [] c = "M" -> "m" [] c = "G" -> "g"
    [] c = "S" -> "s" [] c = "R" -> "r" [] c = "C" -> "c"
    [] OTHER -> c
LowerSeq(s) == [j \in 1..Len(s) |-> Lower(s[j])]
Quotes == {"\"", "'"}

\* whether the literal lit (lower case) is at position p of s, ignoring case
LitAt(s, p, lit) ==
  /\ p >= 1
  /\ p + Len(lit) - 1 <= Len(s)
  /\ LowerSeq(SubSeq(s, p, p + Len(lit) - 1)) = lit

\* the first quote at or after position p, 0 when none
QuoteFrom(s, p) ==
  LET qs == {r \in p..Len(s) : s[r] \in Quotes}
  IN  IF qs = {} THEN 0 ELSE SetMin(qs)

\* The positions q at which src= may start for a match of
\* <img[^>]+src=["']([^"']+)["'] that starts at p: one or more non-">"
\* characters lie between "<img" and q, a quote follows "src=", and a
\* non-empty run without quotes follows, closed by a quote.
SrcStarts(s, p) ==
  IF ~LitAt(s, p, <<"<", "i", "m", "g">>) THEN {}
  ELSE {q \in (p + 5)..Len(s) :
          /\ \A r \in (p + 4)..(q - 1) : s[r] # ">"
          /\ LitAt(s, q, <<"s", "r", "c", "=">>)
          /\ q + 4 <= Len(s)
          /\ s[q + 4] \in Quotes
          /\ QuoteFrom(s, q + 5) > q + 5}

\* re.search: the leftmost position at which the pattern matches, 0 when none
ImgMatch(s) ==
  LET ps == {p \in 1..Len(s) : SrcStarts(s, p) # {}}
  IN  IF ps = {} THEN 0 ELSE SetMin(ps)

first_image(html) ==
  IF ~Truthy(html) THEN Null
  ELSE LET s == html.v
           p == ImgMatch(s)
           \* [^>]+ is greedy: the last src= of the run is the one taken
           q == SetMax(SrcStarts(s, p))
       IN  IF p = 0 THEN Null
           ELSE Some(SubSeq(s, q + 5, QuoteFrom(s, q + 5) - 1))

(* ------------------------------ parse_date ----------------------------- *)
\* the lexemes the date directives accept, with the values they denote
DayOf == ("21 Oct 2025" :> 21) @@ ("22 Oct 2025" :> 22)
IsoDayOf == ("2025-10-21" :> 21) @@ ("2025-10-22" :> 22)
SecOf == ("07:00:00" :> 25200) @@ ("23:30:00" :> 84600) @@ ("01:00:00" :> 3600)
MinOf == ("07:00" :> 25200) @@ ("23:30" :> 84600)
\* %z: a numeric UTC offset, with or without a colon, or Z (minutes)
OffsetOf == ("+0000" :> 0) @@ ("+0200" :> 120) @@ ("-0500" :> -300)
            @@ ("+00:00" :> 0) @@ ("+02:00" :> 120) @@ ("Z" :> 0)
\* %Z: UTC and GMT (and the names of the local zone, none of them drawn here)
ZoneNames == {"UTC", "GMT"}
\* %f, in microseconds
FracOf == ("123" :> 123000) @@ ("5" :> 500000)

Accepts(d) ==
  CASE d = "%a," -> {"Wed,", "Tue,"}
    [] d = "%d %b %Y" -> DOMAIN DayOf
    [] d = "%H:%M:%S" -> DOMAIN SecOf
    [] d = "%H:%M" -> DOMAIN MinOf
    [] d = "%z" -> DOMAIN OffsetOf
    [] d = "%Z" -> ZoneNames
    [] d = "%Y-%m-%d" -> DOMAIN IsoDayOf
    [] d = "%f" -> DOMAIN FracOf
    [] OTHER -> {d}

fmts == <<
  <<"%a,", " ", "%d %b %Y", " ", "%H:%M:%S", " ", "%z">>,
  <<"%a,", " ", "%d %b %Y", " ", "%H:%M:%S", " ", "%Z">>,
  <<"%a,", " ", "%d %b %Y", " ", "%H:%M", " ", "%z">>,
  <<"%a,", " ", "%d %b %Y", " ", "%H:%M", " ", "%Z">>,
  <<"%Y-%m-%d", "T", "%H:%M:%S", "%z">>,
  <<"%Y-%m-%d", "T", "%H:%M:%S", ".", "%f", "%z">> >>

\* whether strptime(s, f) matches: whitespace in the format takes a run of one
\* or more whitespace characters, a directive takes one lexeme it accepts
RECURSIVE Matches(_, _)
Matches(s, f) ==
  IF f = <<>> THEN s = <<>>
  ELSE IF s = <<>> THEN FALSE
  ELSE IF Head(f) = " " THEN Head(s) \in WS /\ Matches(lstrip(s), Tail(f))
  ELSE Head(s) \in Accepts(Head(f)) /\ Matches(Tail(s), Tail(f))

NotWs(c) == c \notin WS

\* the datetime strptime(s, fmts[k]) returns, s matching that format: its
\* fields, and tz = Some(offset in minutes) or Null for a naive value (%Z)
strptime(s, k) ==
  LET t == SelectSeq(s, NotWs)
  IN  CASE k = 1 -> [day |-> DayOf[t[2]], sec |-> SecOf[t[3]], usec |-> 0,
                     tz |-> Some(OffsetOf[t[4]])]
        [] k = 2 -> [day |-> DayOf[t[2]], sec |-> SecOf[t[3]], usec |-> 0,
                     tz |-> Null]
        [] k = 3 -> [day |-> DayOf[t[2]], sec |-> MinOf[t[3]], usec |-> 0,
                     tz |-> Some(OffsetOf[t[4]])]
        [] k = 4 -> [day |-> DayOf[t[2]], sec |-> MinOf[t[3]], usec |-> 0,
                     tz |-> Null]
        [] k = 5 -> [day |-> IsoDayOf[t[1]], sec |-> SecOf[t[3]], usec |-> 0,
                     tz |-> Some(OffsetOf[t[4]])]
        [] OTHER -> [day |-> IsoDayOf[t[1]], sec |-> SecOf[t[3]],
                     usec |-> FracOf[t[5]], tz |-> Some(OffsetOf[t[6]])]

\* dt.astimezone(utc).isoformat(): the fields of the emitted string, whose
\* offset is +00:00; a naive dt is taken as local time (local = offset local
\* minutes east of UTC)
utc_iso(dt, local) ==
  LET off == IF dt.tz.some THEN dt.tz.v ELSE local
      total == dt.day * 86400 + dt.sec - off * 60
  IN  [day |-> total \div 86400, sec |-> total % 86400, usec |-> dt.usec]

\* s.replace("GMT", "+0000")
replace_gmt(s) == [j \in 1..Len(s) |-> IF s[j] = "GMT" THEN "+0000" ELSE s[j]]

NoDate == [ok |-> FALSE, d |-> [day |-> 0, sec |-> 0, usec |-> 0]]

\* the inner loop: the formats from the k-th on, the first that matches wins
RECURSIVE try_fmts(_, _, _)
try_fmts(s, k, local) ==
  IF k > Len(fmts) THEN NoDate
  ELSE IF Matches(s, fmts[k])
       THEN [ok |-> TRUE, d |-> utc_iso(strptime(s, k), local)]
       ELSE try_fmts(s, k + 1, local)

\* A plausible slip: the first non-empty candidate decides, parseable or not.
RECURSIVE try_candidates_first_nonempty(_, _)
try_candidates_first_nonempty(cands, local) ==
  IF cands = <<>> THEN NoDate
  ELSE IF ~Truthy(Head(cands))
       THEN try_candidates_first_nonempty(Tail(cands), local)
       ELSE try_fmts(collapse_ws(replace_gmt(strip(Head(cands).v))), 1, local)

\* the outer loop over the candidates
RECURSIVE try_candidates(_, _)
try_candidates(cands, local) ==
  IF cands = <<>> THEN NoDate
  ELSE IF ~Truthy(Head(cands)) THEN try_candidates(Tail(cands), local)
  ELSE LET r == try_fmts(collapse_ws(replace_gmt(strip(Head(cands).v))),
                         1, local)
       IN  IF r.ok THEN r ELSE try_candidates(Tail(cands), local)

\* clock is what utcnow() reads
parse_date(pub, alt1, alt2, clock, local) ==
  LET r == try_candidates(<<pub, alt1, alt2>>, local)
  IN  IF r.ok THEN r.d ELSE clock

(* ------------------------- main: one item's record --------------------- *)
\* subtitle[:217].rstrip() + marker when longer than 220
truncate(subtitle) ==
  IF Len(subtitle) > SubtitleMax
  THEN rstrip(SubSeq(subtitle, 1, SubtitleCut)) \o Ellipsis
  ELSE subtitle

\* description or content_html, both already defaulted to ""
SummarySource(content_html, description) ==
  IF description # <<>> THEN description ELSE content_html

\* A plausible slip: in-body images before the declared media URL.
pick_image_body_first(media, content_html, description) ==
  LET body == first_image(Some(IF content_html # <<>> THEN content_html
                               ELSE description))
  IN  IF body.some THEN body
      ELSE IF media.some /\ Truthy(media.url) THEN media.url ELSE Null

\* media.get("url") if (media is not None and media.get("url"))
\*   else first_image(content_html or description)
pick_image(media, content_html, description) ==
  IF media.some /\ Truthy(media.url) THEN media.url
  ELSE first_image(Some(IF content_html # <<>> THEN content_html
                        ELSE description))

\* the body of the loop over the items: it holds what findtext / find return
BuildRecord(it, clock, local) ==
  LET title == strip(OrEmpty(it.title))
      link == strip(OrEmpty(it.link))
      pubDate == strip(OrEmpty(it.pubDate))
      iso == parse_date(Some(pubDate), it.dcDate, it.atomUpd, clock, local)
      content_html == OrEmpty(it.content)
      description == OrEmpty(it.description)
      subtitle == truncate(strip_html(Some(SummarySource(content_html,
                                                         description))))
  IN  [title |-> title, subtitle |-> subtitle, date |-> iso, url |-> link,
       image |-> pick_image(it.media, content_html, description)]

(* ------------------------- the feed document -------------------------- *)
\* what it.find("media:content") returns: the element's url attribute
NoMedia == [some |-> FALSE, url |-> Null]
Media(u) == [some |-> TRUE, url |-> u]

\* an item, as the texts findtext returns for its children (Null: no child)
NoFields == [title |-> Null, link |-> Null, pubDate |-> Null, dcDate |-> Null,
             atomUpd |-> Null, content |-> Null, description |-> Null,
             media |-> NoMedia]

Elt(tag, f, children) == [tag |-> tag, f |-> f, children |-> children]

\* the response bodies: bytes that are no XML, or the tree they parse to
Malformed == [wf |-> FALSE, root |-> Elt("none", NoFields, <<>>)]
Document(root) == [wf |-> TRUE, root |-> root]

\* root.find(tag): the first child with that tag, or None
find(el, tag) ==
  LET js == {j \in 1..Len(el.children) : el.children[j].tag = tag}
  IN  IF js = {} THEN [some |-> FALSE, v |-> Elt("none", NoFields, <<>>)]
      ELSE [some |-> TRUE, v |-> el.children[SetMin(js)]]

IsItem(el) == el.tag = "item"
\* channel.findall("item"): the item children, in document order
findall_item(el) == SelectSeq(el.children, IsItem)

\* items = channel.findall("item") if channel is not None else []
feed_items(root) ==
  LET channel == find(root, "channel")
  IN  IF channel.some THEN findall_item(channel.v) ELSE <<>>

\* A plausible slip: the last MAX_POSTS items instead of the first.
take_last(its) == SubSeq(its, Len(its) - Min(Len(its), MAX_POSTS) + 1, Len(its))
\* items[:MAX_POSTS]
take_posts(its) == SubSeq(its, 1, Min(Len(its), MAX_POSTS))

(* -------------------------------- fetch ------------------------------- *)
NoErr == [kind |-> "none", code |-> 0, at |-> 0]
HTTPError(code, at) == [kind |-> "http", code |-> code, at |-> at]
\* a URLError that is no HTTPError: no connection, DNS failure, ...
URLError(at) == [kind |-> "url", code |-> 0, at |-> at]
\* an exception the except clause does not name, e.g. a timeout in read()
OtherError(at) == [kind |-> "other", code |-> 0, at |-> at]
Response(at) == [kind |-> "ok", code |-> 200, at |-> at]

\* A plausible slip: a network error breaks out of the loop too.
RetriesHttpOnly(e) == e.kind = "http" /\ e.code \in RetryCodes
\* A plausible slip: every error caught is retried.
RetriesAll(e) == TRUE
\* the error does not break out of the loop:
\* not (isinstance(e, HTTPError) and e.code not in (403, ...))
Retries(e) == ~(e.kind = "http" /\ e.code \notin RetryCodes)

\* A plausible slip: the same delay after every attempt.
backoff_flat(idx) == delay
\* delay * (i + 1), i the 0-based index of the attempt
backoff(idx) == delay * (idx + 1)

\* A plausible slip: the first error is kept.
keep_first_err(old, e) == IF old.kind = "none" THEN e ELSE old
\* last_err = e
set_last_err(old, e) == e

\* main's handler of an exception leaving fetch: message, return 1
MainFetchFailed(e) ==
  /\ raised' = e
  /\ stderr' = "ERROR fetching feed"
  /\ exit' = 1
  /\ pc' = "done"

\* an attempt whose urlopen / read raises e, an HTTPError or URLError
FailedAttempt(e) ==
  /\ pc = "fetch"
  /\ i < tries
  /\ gets' = Append(gets, e)
  /\ last_err' = set_last_err(last_err, e)
  /\ IF Retries(e)
     THEN /\ sleeps' = Append(sleeps, [after |-> i + 1, secs |-> backoff(i)])
          /\ i' = i + 1
          /\ pc' = IF i + 1 < tries THEN "fetch" ELSE "raise"
     ELSE /\ pc' = "raise"
          /\ UNCHANGED <<i, sleeps>>
  /\ UNCHANGED <<raised, raw, items, out, posts_json, writes, stderr, exit,
                 now, tzoff, given>>

HttpCodes == RetryCodes \cup {404, 501}

GetHTTPError == \E code \in HttpCodes : FailedAttempt(HTTPError(code, i + 1))

GetURLError == FailedAttempt(URLError(i + 1))

\* an exception that is neither: it leaves fetch at once and main catches it
GetOtherError ==
  /\ pc = "fetch"
  /\ i < tries
  /\ gets' = Append(gets, OtherError(i + 1))
  /\ MainFetchFailed(OtherError(i + 1))
  /\ UNCHANGED <<i, sleeps, last_err, raw, items, out, posts_json, writes,
                 now, tzoff, given>>

\* raise last_err, caught by main
FetchRaise ==
  /\ pc = "raise"
  /\ MainFetchFailed(last_err)
  /\ UNCHANGED <<i, gets, sleeps, last_err, raw, items, out, posts_json,
                 writes, now, tzoff, given>>

(* ------------------------ the inputs of the runs ---------------------- *)
Str_Hello == <<" ", "H", "e", "l", "l", "o", " ">>
Str_World == <<"<", "p", ">", "W", "o", "r", "l", "d", "<", "/", "p", ">">>
Str_ImgA == <<"<", "i", "m", "g", " ", "s", "r", "c", "=", "\"", "a", "\"", ">">>
Str_Url == <<"h", "t", "t", "p", ":", "m">>
Date_Gmt == <<"Wed,", " ", "22 Oct 2025", " ", "07:00:00", " ", "GMT">>
Date_Iso == <<"2025-10-22", "T", "07:00:00", "+02:00">>
Date_Bad == <<"yesterday">>

\* the link text of the j-th item of a document
PostNames == <<"p1", "p2", "p3", "p4", "p5", "p6", "p7", "p8", "p9", "p10",
               "p11", "p12", "p13", "p14", "p15", "p16">>
PostLink(j) == <<"\n", "/", PostNames[j], " ">>

ItemPool == <<
  [NoFields EXCEPT !.title = Some(Str_Hello), !.pubDate = Some(Date_Gmt),
                   !.description = Some(Str_World)],
  NoFields,
  [NoFields EXCEPT !.title = Some(<<>>), !.pubDate = Some(Date_Bad),
                   !.dcDate = Some(Date_Iso),
                   !.content = Some(Str_ImgA \o <<"x">>),
                   !.media = Media(Some(Str_Url))] >>

\* the j-th item of the document drawn as (n, rot, junk)
ItemAt(j, rot) ==
  [ItemPool[((j - 1 + rot) % Len(ItemPool)) + 1] EXCEPT !.link = Some(PostLink(j))]

\* n items in order; with junk, another element before every odd one
RECURSIVE Children(_, _, _, _)
Children(j, n, rot, junk) ==
  IF j > n THEN <<>>
  ELSE (IF junk /\ j % 2 = 1 THEN <<Elt("title", NoFields, <<>>)>> ELSE <<>>)
       \o <<Elt("item", ItemAt(j, rot), <<>>)>>
       \o Children(j + 1, n, rot, junk)

\* the documents a response may hold, by what describes them
Givens ==
  {[kind |-> "malformed", n |-> 0, rot |-> 0, junk |-> FALSE]}
  \cup {[kind |-> "nochannel", n |-> n, rot |-> 0, junk |-> FALSE] : n \in {0, 2}}
  \cup {[kind |-> "rss", n |-> n, rot |-> rot, junk |-> junk] :
          n \in 0..MaxItems, rot \in 0..(Len(ItemPool) - 1), junk \in BOOLEAN}
NoGiven == [kind |-> "none", n |-> 0, rot |-> 0, junk |-> FALSE]

BodyOf(g) ==
  CASE g.kind = "malformed" -> Malformed
    [] g.kind = "nochannel" ->
         \* items that are no children of a channel
         Document(Elt("rss", NoFields, Children(1, g.n, g.rot, g.junk)))
    [] OTHER ->
         Document(Elt("rss", NoFields,
                      <<Elt("channel", NoFields,
                            Children(1, g.n, g.rot, g.junk))>>))

Clock == [day |-> 30, sec |-> 43200, usec |-> 654321]

(* ------------------------------ fetch, main --------------------------- *)
\* an attempt that succeeds: return resp.read()
GetOk ==
  /\ pc = "fetch"
  /\ i < tries
  /\ \E g \in Givens : raw' = BodyOf(g) /\ given' = g
  /\ gets' = Append(gets, Response(i + 1))
  /\ pc' = "parse"
  /\ UNCHANGED <<i, sleeps, last_err, raised, items, out, posts_json, writes,
                 stderr, exit, now, tzoff>>

\* A plausible slip: a parse error taken for an empty feed.
MainParseErrorIgnored ==
  /\ pc = "parse"
  /\ ~raw.wf
  /\ items' = <<>>
  /\ pc' = "items"
  /\ UNCHANGED <<i, gets, sleeps, last_err, raised, raw, out, posts_json,
                 writes, stderr, exit, now, tzoff, given>>

\* ET.fromstring(raw) raises: message, return 1
MainParseError ==
  /\ pc = "parse"
  /\ ~raw.wf
  /\ stderr' = "ERROR parsing XML"
  /\ exit' = 1
  /\ pc' = "done"
  /\ UNCHANGED <<i, gets, sleeps, last_err, raised, raw, items, out,
                 posts_json, writes, now, tzoff, given>>

\* the bytes parse: the channel's items, out = []
MainParseOk ==
  /\ pc = "parse"
  /\ raw.wf
  /\ items' = take_posts(feed_items(raw.root))
  /\ out' = <<>>
  /\ pc' = "items"
  /\ UNCHANGED <<i, gets, sleeps, last_err, raised, raw, posts_json, writes,
                 stderr, exit, now, tzoff, given>>

\* one turn of the loop over items[:MAX_POSTS]
ProcessItem ==
  /\ pc = "items"
  /\ Len(out) < Len(items)
  /\ out' = Append(out, BuildRecord(items[Len(out) + 1].f, now, tzoff))
  /\ UNCHANGED <<pc, i, gets, sleeps, last_err, raised, raw, items,
                 posts_json, writes, stderr, exit, now, tzoff, given>>

\* the loop is over: open posts.json, json.dump(out), return 0
WriteOut ==
  /\ pc = "items"
  /\ Len(out) = Len(items)
  /\ posts_json' = Some(out)
  /\ writes' = writes + 1
  /\ exit' = 0
  /\ pc' = "done"
  /\ UNCHANGED <<i, gets, sleeps, last_err, raised, raw, items, out, stderr,
                 now, tzoff, given>>

\* the state main() starts in
Init ==
  /\ pc = "fetch"
  /\ i = 0
  /\ gets = <<>>
  /\ sleeps = <<>>
  /\ last_err = NoErr
  /\ raised = NoErr
  /\ raw = Malformed
  /\ items = <<>>
  /\ out = <<>>
  /\ posts_json = Null
  /\ writes = 0
  /\ stderr = ""
  /\ exit = -1
  /\ now = Clock
  /\ tzoff = 0
  /\ given = NoGiven

Next ==
  \/ GetOk
  \/ GetHTTPError
  \/ GetURLError
  \/ GetOtherError
  \/ FetchRaise
  \/ MainParseError
  \/ MainParseOk
  \/ ProcessItem
  \/ WriteOut

Spec == Init /\ [][Next]_vars

(* ===================== properties of fetch and main ==================== *)
\* the statuses the specification names as eligible for a retry
SpecRetryStatuses == {403, 429, 500, 502, 503, 504}
IsRetryStatus(g) == g.kind = "http" /\ g.code \in SpecRetryStatuses
IsOtherStatus(g) == g.kind = "http" /\ g.code \notin SpecRetryStatuses
\* a backoff sleep was performed after the j-th GET attempt
SleptAfter(j) == \E k \in 1..Len(sleeps) : sleeps[k].after = j
\* fetch has left its loop with the error g of its last attempt
RaisesError(g) ==
  /\ pc \in {"raise", "done"}
  /\ pc = "raise" => last_err = g
  /\ pc = "done" => raised = g /\ exit = 1

C2_RetriesThenSucceeds ==
  \A k \in 0..3 :
    ( /\ Len(gets) >= k + 1
      /\ \A j \in 1..k : IsRetryStatus(gets[j])
      /\ gets[k + 1].kind = "ok" )
    => /\ Len(gets) = k + 1
       /\ pc \in {"parse", "items", "done"}
       /\ raised = NoErr
       /\ given # NoGiven /\ raw = BodyOf(given)
       /\ Len(sleeps) = k
       /\ \A n \in 1..k : sleeps[n] = [after |-> n, secs |-> 2 * n]

C2_Witness ==
  /\ pc = "done" /\ exit = 0
  /\ Len(gets) = 4
  /\ \A j \in 1..3 : gets[j].kind = "http" /\ gets[j].code = 403
  /\ gets[4].kind = "ok"
  /\ sleeps = <<[after |-> 1, secs |-> 2], [after |-> 2, secs |-> 4],
                [after |-> 3, secs |-> 6]>>

\* C3 as stated: an attempt failing with a network error (a URLError that is
\* no HTTP status error) is the last GET of the call, no sleep follows it,
\* and fetch raises that error.
C3_NetworkErrorAbortsAtOnce ==
  \A j \in 1..Len(gets) :
    gets[j].kind = "url" =>
      /\ j = Len(gets)
      /\ ~SleptAfter(j)
      /\ RaisesError(gets[j])

\* C3 amended: a network error at the j-th attempt is handled like a
\* retryable status: a sleep of 2*j seconds follows it, then another GET is
\* made when j < 4, and the error is raised when it was that of the 4th.
C3_NetworkErrorIsRetried ==
  \A j \in 1..Len(gets) :
    gets[j].kind = "url" =>
      /\ \E k \in 1..Len(sleeps) : sleeps[k] = [after |-> j, secs |-> 2 * j]
      /\ (j < 4 /\ j = Len(gets)) => pc = "fetch"
      /\ j = 4 => RaisesError(gets[j])

C3_Witness ==
  /\ pc = "done"
  /\ Len(gets) = 4
  /\ gets[1].kind = "url"
  /\ gets[4].kind = "url"
  /\ raised = gets[4]

\* C4: a call makes at most 4 GET attempts; when all 4 fail with retryable
\* statuses it raises the error of the 4th and returns no bytes.
C4_AtMostFourRaisesLast ==
  /\ Len(gets) <= 4
  /\ ( Len(gets) = 4 /\ \A j \in 1..4 : IsRetryStatus(gets[j]) )
     => /\ RaisesError(gets[4])
        /\ given = NoGiven

C4_Witness ==
  /\ pc = "done"
  /\ Len(gets) = 4
  /\ \A j \in 1..4 : IsRetryStatus(gets[j])
  /\ gets[1].code = 403 /\ gets[4].code = 503
  /\ raised = gets[4]

\* C5: main returns 1 exactly when fetch raised or the XML parse raised, and
\* then posts.json is never written and no item is processed; in every other
\* run it writes posts.json once, after all items, and returns 0.
C5_ExitCodeAndOutput ==
  /\ pc = "done" <=> exit \in {0, 1}
  /\ pc = "done" => (exit = 1 <=> (raised # NoErr \/ given.kind = "malformed"))
  /\ exit = 1 => writes = 0 /\ ~posts_json.some /\ out = <<>>
  /\ writes <= 1
  /\ writes = 1 <=> (pc = "done" /\ exit = 0)
  /\ exit = 0 => posts_json = Some(out) /\ Len(out) = Len(items)

C5_Witness ==
  /\ pc = "done" /\ exit = 0
  /\ given.kind = "nochannel" /\ given.n = 2
  /\ writes = 1
  /\ posts_json = Some(<<>>)

\* C6: for a feed whose channel has N item children the written array has
\* min(N, 12) records and record j is built from the j-th item in document
\* order.
C6_FirstTwelveInOrder ==
  (pc = "done" /\ exit = 0 /\ given.kind = "rss") =>
    /\ posts_json.some
    /\ Len(posts_json.v) = Min(given.n, 12)
    /\ \A j \in 1..Len(posts_json.v) :
         /\ posts_json.v[j].url = <<"/", PostNames[j]>>
         /\ posts_json.v[j] = BuildRecord(ItemAt(j, given.rot), now, tzoff)

C6_Witness ==
  /\ pc = "done" /\ exit = 0
  /\ given.kind = "rss" /\ given.n = 13 /\ given.junk
  /\ Len(posts_json.v) = 12
  /\ posts_json.v[12].url = <<"/", "p12">>

\* C9: every backoff sleep is followed by another GET attempt: fetch does not
\* sleep after its final attempt, and a call whose 4 attempts all fail with
\* retryable statuses sleeps exactly 3 times (2 s, 4 s, 6 s) before raising.
C9_EverySleepBeforeAGet ==
  /\ \A k \in 1..Len(sleeps) : sleeps[k].after < Len(gets) \/ pc = "fetch"
  /\ ( Len(gets) = 4 /\ \A j \in 1..4 : IsRetryStatus(gets[j]) )
     => /\ Len(sleeps) = 3
        /\ \A n \in 1..3 : sleeps[n].secs = 2 * n

(* ============== one item at a time: the loop body on its own ========== *)
\* the state in which fetch has returned a document that holds the one item
\* it, and the document has parsed; g describes how it was drawn
InitItem(it, g, local) ==
  /\ pc = "items"
  /\ i = 0
  /\ gets = <<Response(1)>>
  /\ sleeps = <<>>
  /\ last_err = NoErr
  /\ raised = NoErr
  /\ raw = Document(Elt("rss", NoFields,
                        <<Elt("channel", NoFields, <<Elt("item", it, <<>>)>>)>>))
  /\ items = <<Elt("item", it, <<>>)>>
  /\ out = <<>>
  /\ posts_json = Null
  /\ writes = 0
  /\ stderr = ""
  /\ exit = -1
  /\ now = Clock
  /\ tzoff = local
  /\ given = g

NextItem == ProcessItem \/ WriteOut

(* ------------------------------ subtitles ------------------------------ *)
Alphabet == {"<", ">", "a", " "}
ShortTexts == UNION {[1..n -> Alphabet] : n \in 0..MaxLen}
\* n characters, every 7th a space (so is the 217th)
LongText(n) == [j \in 1..n |-> IF j % 7 = 0 THEN " " ELSE "a"]
LongTexts == {LongText(220), LongText(221), LongText(230),
              <<"<", "b", ">">> \o LongText(230) \o <<">">>}
ContentTexts == {Null, Some(<<"a", "<", " ", ">", ">", "<">>)}

InitSubtitle ==
  \E d \in ShortTexts \cup LongTexts, c \in ContentTexts :
    InitItem([NoFields EXCEPT !.description = Some(d), !.content = c],
             [kind |-> "subtitle"], 0)

SpecSubtitle == InitSubtitle /\ [][NextItem]_vars

HasAngle(s) == \E j \in 1..Len(s) : s[j] \in {"<", ">"}
\* a "<", one or more characters other than ">", and a ">"
HasTag(s) ==
  \E p \in 1..Len(s) : \E q \in (p + 2)..Len(s) :
    /\ s[p] = "<"
    /\ s[q] = ">"
    /\ \A r \in (p + 1)..(q - 1) : s[r] # ">"

\* C7 as stated: no subtitle holds a "<" or a ">", whatever the description
\* or content.
C7_SubtitleHasNoAngle == \A j \in 1..Len(out) : ~HasAngle(out[j].subtitle)

\* C7 amended: no subtitle holds a complete tag (a "<", one or more
\* characters other than ">", and a ">"); it may hold a "<" or ">" that is
\* part of no such tag.
C7_SubtitleHasNoTag == \A j \in 1..Len(out) : ~HasTag(out[j].subtitle)

C7_Witness ==
  /\ Len(out) = 1
  /\ HasTag(items[1].f.description.v)
  /\ HasAngle(out[1].subtitle)

(* -------------------------------- images ------------------------------- *)
\* the fragments a blob is made of: what each is, and its text
FragPool == <<
  [kind |-> "text", src |-> <<>>, text |-> <<"h", "i">>],
  [kind |-> "tag", src |-> <<>>, text |-> <<"<", "p", ">">>],
  [kind |-> "img", src |-> <<"a">>, text |-> Str_ImgA],
  [kind |-> "img", src |-> <<"b">>,
   text |-> <<"<", "I", "M", "G", "\n", "S", "R", "C", "=", "'", "b", "'", ">">>],
  [kind |-> "img", src |-> <<>>,
   text |-> <<"<", "i", "m", "g", " ", "a", "l", "t", "=", "\"", "x", "\"", ">">>],
  [kind |-> "img", src |-> <<"c">>,
   text |-> <<"<", "i", "m", "g", " ", "a", "l", "t", "=", "\"", "x", "\"", " ",
              "s", "r", "c", "=", "\"", "c", "\"", "/", ">">>] >>

RECURSIVE Render(_)
Render(fs) == IF fs = <<>> THEN <<>> ELSE FragPool[Head(fs)].text \o Render(Tail(fs))

FragSeqs(n) == UNION {[1..m -> 1..Len(FragPool)] : m \in 0..n}
MediaChoices == {NoMedia, Media(Null), Media(Some(<<>>)), Media(Some(Str_Url))}

InitImage ==
  \E c \in FragSeqs(MaxFrags), d \in FragSeqs(1), m \in MediaChoices,
     absent \in BOOLEAN :
    InitItem([NoFields EXCEPT
                !.content = IF absent /\ c = <<>> THEN Null ELSE Some(Render(c)),
                !.description = IF absent /\ d = <<>> THEN Null ELSE Some(Render(d)),
                !.media = m],
             [kind |-> "image", content |-> c, description |-> d, media |-> m],
             0)

SpecImage == InitImage /\ [][NextItem]_vars

\* the src of the first <img> fragment that has one, None when there is none
FirstImgSrc(fs) ==
  LET js == {j \in 1..Len(fs) :
               FragPool[fs[j]].kind = "img" /\ FragPool[fs[j]].src # <<>>}
  IN  IF js = {} THEN Null ELSE Some(FragPool[fs[SetMin(js)]].src)

DeclaresMediaUrl(g) == g.media.some /\ g.media.url.some /\ g.media.url.v # <<>>

DatePool == <<
  Date_Gmt,
  <<"Wed,", " ", "21 Oct 2025", " ", "23:30:00", " ", "-0500">>,
  <<"Tue,", " ", "21 Oct 2025", " ", "07:00:00", " ", "UTC">>,
  <<"Wed,", " ", "22 Oct 2025", " ", "23:30", " ", "GMT">>,
  Date_Iso,
  <<"2025-10-21", "T", "01:00:00", ".", "123", "Z">>,
  <<" ", "Wed,", " ", "\t", "22 Oct 2025", " ", "01:00:00", " ", "+0200", "\n">>,
  Date_Bad,
  <<"Wed,", " ", "22 Oct 2025", " ", "07:00:00", " ", "EST">>,
  <<"2025-10-22", "T", "07:00:00">>,
  <<" ">>,
  <<>> >>

\* a candidate: 0 for a missing element, else an entry of DatePool
DateText(c) == IF c = 0 THEN Null ELSE Some(DatePool[c])
LocalOffsets == {0, 120}

InitDate ==
  \E c \in [1..3 -> 0..Len(DatePool)], local \in LocalOffsets :
    InitItem([NoFields EXCEPT !.pubDate = DateText(c[1]),
                              !.dcDate = DateText(c[2]),
                              !.atomUpd = DateText(c[3])],
             [kind |-> "date", c |-> c], local)

SpecDate == InitDate /\ [][NextItem]_vars

\* the instant each entry of DatePool denotes, as Python's strptime and
\* astimezone give it under the six formats; ok is FALSE when none parses
Instant(day, sec, usec) == [ok |-> TRUE, d |-> [day |-> day, sec |-> sec, usec |-> usec]]
Denotes(c, local) ==
  CASE c = 1 -> Instant(22, 25200, 0)
    [] c = 2 -> Instant(22, 16200, 0)
    [] c = 3 -> Instant(21, 25200 - local * 60, 0)
    [] c = 4 -> Instant(22, 84600, 0)
    [] c = 5 -> Instant(22, 18000, 0)
    [] c = 6 -> Instant(21, 3600, 123000)
    [] c = 7 -> Instant(21, 82800, 0)
    [] OTHER -> NoDate

\* C10: the date comes from the first of pubDate, dc:date, atom:updated that
\* is non-empty and parses; a later one is used only when every earlier one
\* is empty or unparseable; when none parses the date is the current UTC time.
C10_FirstParseableCandidate ==
  \A j \in 1..Len(out) :
    LET ks == {k \in 1..3 : Denotes(given.c[k], tzoff).ok}
    IN  out[j].date = IF ks = {} THEN now
                      ELSE Denotes(given.c[SetMin(ks)], tzoff).d

C10_Witness ==
  /\ Len(out) = 1
  /\ given.c = <<8, 9, 2>>
  /\ out[1].date = [day |-> 22, sec |-> 16200, usec |-> 0]
====
